---- MODULE Spec2Model ----
(***************************************************************************)
(* A model of three parts of the gammapy toolkit:                          *)
(*   - gammapy/maps/map_dict.py: the Maps container,                       *)
(*   - gammapy/analysis/core.py: the Analysis session,                     *)
(*   - gammapy/estimators/points/sensitivity.py: SensitivityEstimator.     *)
(* Python exceptions are modelled as the "exc" field of the record that    *)
(* describes the last call ("" when the call returned normally).           *)
(***************************************************************************)
EXTENDS Integers, Sequences, FiniteSets, TLC

VARIABLES
    mGeom,          \* Maps._geom ("None" or a geometry)
    mData,          \* Maps._data: a function from the stored keys to the stored values
    mLast,          \* the last call on the Maps object and how it ended
    datasets,       \* Analysis.datasets: None, or the datasets and the models set on them
    datasets_file,  \* Analysis.config.general.datasets_file
    models_file,    \* Analysis.config.general.models_file
    aLast,          \* the last call on the Analysis session and how it ended
    steps_config,   \* Analysis.config.general.steps
    overwrite_config, \* Analysis.config.general.overwrite
    pc,             \* where Analysis.run is: "idle", "run", "returned" or "raised"
    rArgs,          \* the method called last and the arguments run was given
    steps,          \* run's local variable steps
    overwrite,      \* run's local variable overwrite
    k,              \* run's loop index: the steps gone through so far
    rLog,           \* the steps created and run by the call, each with its overwrite
    rExc,           \* the exception the call ended with ("" for none)
    estimator,      \* the SensitivityEstimator: gamma_min and bkg_syst_fraction
    sLast           \* the last call on the estimator: its dataset and what it returned

mapsVars == <<mGeom, mData, mLast>>

sessionVars == <<datasets, datasets_file, models_file, aLast>>

\* What a call on the Maps object leaves alone, and what a call on the
\* session leaves alone.
runVars == <<steps_config, overwrite_config, pc, rArgs, steps, overwrite, k, rLog, rExc>>

sensVars == <<estimator, sLast>>

notMaps == <<sessionVars, runVars, sensVars>>

notSession == <<mapsVars, runVars, sensVars>>

notRun == <<mapsVars, sessionVars, sensVars>>

notSens == <<mapsVars, sessionVars, runVars>>

vars == <<mGeom, mData, mLast, datasets, datasets_file, models_file, aLast,
          steps_config, overwrite_config, pc, rArgs, steps, overwrite, k, rLog, rExc,
          estimator, sLast>>

(***************************************************************************)
(* Bounds of the model.                                                    *)
(***************************************************************************)
\* Longest keyword-argument list given to the Maps constructor.
MaxKwargs == 2

\* Most datasets a Datasets collection holds.
MaxDatasets == 2

\* Longest list of models handed to set_models or read from a models file.
MaxGiven == 2

\* Longest list of steps, and longest list of overwrite flags, given to run
\* or held by the configuration.
MaxSteps == 2

\* Most reconstructed energy bins of a spectrum dataset.
MaxBins == 2

\* Most models on the datasets: a set_models call that would leave more is
\* not taken.
MaxModels == 4

(***************************************************************************)
(* gammapy/maps/map_dict.py                                                *)
(***************************************************************************)
\* The keys used with the container.
Keys == {"counts", "exposure", "background"}

\* The geometries the Map objects have.
Geoms == {"gA", "gB"}

\* The Map objects: two distinct maps of geometry gA and one of geometry gB.
MapObjects == {"mapA1", "mapA2", "mapB1"}

\* The values handed to __setitem__: Map objects, None, and an object that
\* is no Map (an array, a number).
Values == MapObjects \cup {"None", "notAMap"}

\* isinstance(value, Map)
IsMap(value) == value \in MapObjects

\* value.geom of a Map object.
GeomOf(value) == IF value \in {"mapA1", "mapA2"} THEN "gA" ELSE "gB"

\* The empty dict.
EmptyData == [x \in {} |-> "None"]

\* dict.__setitem__: self._data[key] = value
DictSet(data, key, value) ==
    [x \in (DOMAIN data) \cup {key} |-> IF x = key THEN value ELSE data[x]]

\* dict.__delitem__ of a key that is present.
DictDel(data, key) == [x \in (DOMAIN data) \ {key} |-> data[x]]

\* A __setitem__ that checks the geometry of new keys only: replacing the
\* value of an existing key is let through.
SetItemResultNewKeyOnly(geom, data, key, value) ==
    IF value # "None" /\ ~IsMap(value)
    THEN [exc |-> "ValueError", geom |-> geom, data |-> data]
    ELSE IF value = "None"
    THEN [exc |-> "AttributeError", geom |-> geom, data |-> data]
    ELSE IF Cardinality(DOMAIN data) > 0 /\ key \notin DOMAIN data
            /\ GeomOf(value) # geom
    THEN [exc |-> "ValueError", geom |-> geom, data |-> data]
    ELSE [exc |-> "",
          geom |-> IF Cardinality(DOMAIN data) > 0 THEN geom ELSE GeomOf(value),
          data |-> DictSet(data, key, value)]

\* A __setitem__ that stores the value before it checks its type.
SetItemResultStoreFirst(geom, data, key, value) ==
    IF value # "None" /\ ~IsMap(value)
    THEN [exc |-> "ValueError", geom |-> geom, data |-> DictSet(data, key, value)]
    ELSE IF value = "None"
    THEN [exc |-> "AttributeError", geom |-> geom, data |-> data]
    ELSE IF Cardinality(DOMAIN data) > 0
    THEN IF GeomOf(value) # geom
         THEN [exc |-> "ValueError", geom |-> geom, data |-> data]
         ELSE [exc |-> "", geom |-> geom, data |-> DictSet(data, key, value)]
    ELSE [exc |-> "", geom |-> GeomOf(value), data |-> DictSet(data, key, value)]

\* A __setitem__ that takes the geometry of every value it is given, and so
\* never refuses a Map.
SetItemResultNoGeomCheck(geom, data, key, value) ==
    IF value # "None" /\ ~IsMap(value)
    THEN [exc |-> "ValueError", geom |-> geom, data |-> data]
    ELSE IF value = "None"
    THEN [exc |-> "AttributeError", geom |-> geom, data |-> data]
    ELSE [exc |-> "", geom |-> GeomOf(value), data |-> DictSet(data, key, value)]

\* Maps.__setitem__(key, value) on a container with _geom = geom and
\* _data = data: the exception raised ("" for none) and the fields after the
\* call.  value.geom of None raises AttributeError, in the comparison of a
\* non-empty container as well as in the assignment of an empty one, before
\* anything is assigned.
SetItemResult(geom, data, key, value) ==
    IF value # "None" /\ ~IsMap(value)
    THEN [exc |-> "ValueError", geom |-> geom, data |-> data]
    ELSE IF Cardinality(DOMAIN data) > 0
    THEN IF value = "None"
         THEN [exc |-> "AttributeError", geom |-> geom, data |-> data]
         ELSE IF GeomOf(value) # geom
         THEN [exc |-> "ValueError", geom |-> geom, data |-> data]
         ELSE [exc |-> "", geom |-> geom, data |-> DictSet(data, key, value)]
    ELSE IF value = "None"
         THEN [exc |-> "AttributeError", geom |-> geom, data |-> data]
         ELSE [exc |-> "", geom |-> GeomOf(value), data |-> DictSet(data, key, value)]

\* A key-value pair of a keyword-argument list.
Kwarg == [key : Keys, value : Values]

\* The keyword-argument lists given to the constructor: keyword names are
\* distinct.
KwargLists ==
    {kw \in UNION {[1..n -> Kwarg] : n \in 0..MaxKwargs} :
        \A i, j \in 1..Len(kw) : i # j => kw[i].key # kw[j].key}

\* Maps.__init__(**kwargs): the fields start as None and {}, then every
\* keyword argument goes through __setitem__ in order; the first exception
\* leaves the constructor.
RECURSIVE InitResult(_, _)
InitResult(kwargs, n) ==
    IF n = 0
    THEN [exc |-> "", geom |-> "None", data |-> EmptyData]
    ELSE LET before == InitResult(kwargs, n - 1)
         IN IF before.exc # ""
            THEN before
            ELSE SetItemResult(before.geom, before.data, kwargs[n].key, kwargs[n].value)

\* The record of a call on the Maps object.
MapsCall(op, key, value, exc) == [op |-> op, key |-> key, value |-> value, exc |-> exc]

\* maps = Maps(**kwargs): a new container replaces the one held when the
\* constructor returns; when it raises, the one held stays.
MapsConstruct(kwargs) ==
    LET r == InitResult(kwargs, Len(kwargs))
    IN /\ mGeom' = IF r.exc = "" THEN r.geom ELSE mGeom
       /\ mData' = IF r.exc = "" THEN r.data ELSE mData
       /\ mLast' = MapsCall("init", "", "", r.exc)
       /\ UNCHANGED notMaps

\* maps[key] = value
SetItem(key, value) ==
    LET r == SetItemResult(mGeom, mData, key, value)
    IN /\ mGeom' = r.geom
       /\ mData' = r.data
       /\ mLast' = MapsCall("setitem", key, value, r.exc)
       /\ UNCHANGED notMaps

\* del maps[key]: KeyError when the key is not stored; _geom is left alone.
DelItem(key) ==
    /\ mData' = IF key \in DOMAIN mData THEN DictDel(mData, key) ELSE mData
    /\ mLast' = MapsCall("delitem", key, "", IF key \in DOMAIN mData THEN "" ELSE "KeyError")
    /\ UNCHANGED <<mGeom, notMaps>>

\* The state after maps = Maps().
MapsInit ==
    /\ mGeom = "None"
    /\ mData = EmptyData
    /\ mLast = MapsCall("init", "", "", "")

MapsNext ==
    \/ \E kwargs \in KwargLists : MapsConstruct(kwargs)
    \/ \E key \in Keys, value \in Values : SetItem(key, value)
    \/ \E key \in Keys : DelItem(key)


(***************************************************************************)
(* gammapy/analysis/core.py: datasets and models of the session            *)
(*                                                                         *)
(* Datasets, Models, FoVBackgroundModel and MapDataset.background_model    *)
(* are defined outside the files modelled here.  A Models object is a      *)
(* sequence of models and extend() appends to it in order; datasets.models *)
(* is the sequence last assigned to it.                                    *)
(***************************************************************************)
\* The datasets a collection is made of.
DatasetPool ==
    { [name |-> "d1", tag |-> "MapDataset"],
      [name |-> "d2", tag |-> "MapDataset"],
      [name |-> "d3", tag |-> "SpectrumDatasetOnOff"] }

\* The lists of datasets: up to MaxDatasets datasets of distinct names.
DatasetLists ==
    {l \in UNION {[1..n -> DatasetPool] : n \in 0..MaxDatasets} :
        \A i, j \in 1..Len(l) : i # j => l[i].name # l[j].name}

\* The models a caller or a models file provides: a sky model and a
\* background model of dataset d1 (auto: whether set_models created it).
ModelPool ==
    { [name |-> "srcA", type |-> "SkyModel", dataset_name |-> "", auto |-> FALSE],
      [name |-> "d1-bkg", type |-> "FoVBackgroundModel", dataset_name |-> "d1",
       auto |-> FALSE] }

\* The lists of models handed to set_models or read from a file.
ModelLists == UNION {[1..n -> ModelPool] : n \in 0..MaxGiven}

\* The types of the models argument: a YAML string, a Models object, a
\* DatasetModels object, a list, and an object of another type.
ValidModelTypes == {"str", "Models", "DatasetModels", "list"}

\* The models arguments: a value of a valid type stands for a list of
\* models; a value of another type stands for none.
ModelArgs ==
    [type : ValidModelTypes, models : ModelLists]
        \cup {[type |-> "other", models |-> <<>>]}

\* self.datasets = None
NoneDatasets == [isNone |-> TRUE, items |-> <<>>, models |-> <<>>]

\* `not self.datasets`: None, or a Datasets collection of length 0.
NotDatasets(ds) == ds.isNone \/ Len(ds.items) = 0

\* FoVBackgroundModel(dataset_name=name), named "<name>-bkg".
FoVBackgroundModel(name) ==
    [name |-> IF name = "d1" THEN "d1-bkg" ELSE IF name = "d2" THEN "d2-bkg" ELSE "d3-bkg",
     type |-> "FoVBackgroundModel", dataset_name |-> name, auto |-> TRUE]

\* dataset.background_model is not None: one of the models set on the
\* datasets is a background model of this dataset.
HasBackgroundModel(dataset, models) ==
    \E i \in 1..Len(models) :
        /\ models[i].type = "FoVBackgroundModel"
        /\ models[i].dataset_name = dataset.name

\* The bkg_models list of set_models after the first n datasets: a
\* FoVBackgroundModel for every MapDataset without a background model.
RECURSIVE BkgModels(_, _, _)
BkgModels(items, models, n) ==
    IF n = 0
    THEN <<>>
    ELSE IF items[n].tag = "MapDataset" /\ ~HasBackgroundModel(items[n], models)
    THEN Append(BkgModels(items, models, n - 1), FoVBackgroundModel(items[n].name))
    ELSE BkgModels(items, models, n - 1)

\* A set_models that checks the type of the models before it checks that
\* there are datasets.
SetModelsResultTypeFirst(ds, arg, extend) ==
    IF arg.type \notin ValidModelTypes
    THEN [exc |-> "TypeError", datasets |-> ds, assigned |-> <<>>, added |-> <<>>]
    ELSE IF NotDatasets(ds) \/ Len(ds.items) = 0
    THEN [exc |-> "RuntimeError", datasets |-> ds, assigned |-> <<>>, added |-> <<>>]
    ELSE LET models == IF extend THEN arg.models \o ds.models ELSE arg.models
             bkg_models == BkgModels(ds.items, models, Len(ds.items))
         IN [exc |-> "",
             datasets |-> [ds EXCEPT !.models = models \o bkg_models],
             assigned |-> models,
             added |-> bkg_models]

\* A set_models that puts the models of the datasets before the given ones.
SetModelsResultOldFirst(ds, arg, extend) ==
    IF NotDatasets(ds) \/ Len(ds.items) = 0
    THEN [exc |-> "RuntimeError", datasets |-> ds, assigned |-> <<>>, added |-> <<>>]
    ELSE IF arg.type \notin ValidModelTypes
    THEN [exc |-> "TypeError", datasets |-> ds, assigned |-> <<>>, added |-> <<>>]
    ELSE LET models == IF extend THEN ds.models \o arg.models ELSE arg.models
             bkg_models == BkgModels(ds.items, models, Len(ds.items))
         IN [exc |-> "",
             datasets |-> [ds EXCEPT !.models = models \o bkg_models],
             assigned |-> models,
             added |-> bkg_models]

\* A set_models that looks for missing background models among the models
\* that were on the datasets before the call.
SetModelsResultStaleBkg(ds, arg, extend) ==
    IF NotDatasets(ds) \/ Len(ds.items) = 0
    THEN [exc |-> "RuntimeError", datasets |-> ds, assigned |-> <<>>, added |-> <<>>]
    ELSE IF arg.type \notin ValidModelTypes
    THEN [exc |-> "TypeError", datasets |-> ds, assigned |-> <<>>, added |-> <<>>]
    ELSE LET models == IF extend THEN arg.models \o ds.models ELSE arg.models
             bkg_models == BkgModels(ds.items, ds.models, Len(ds.items))
         IN [exc |-> "",
             datasets |-> [ds EXCEPT !.models = models \o bkg_models],
             assigned |-> models,
             added |-> bkg_models]

\* Analysis.set_models(models, extend) with self.datasets = ds: the
\* exception raised ("" for none), the datasets after the call, the models
\* assigned to the datasets first and the background models added after.
SetModelsResult(ds, arg, extend) ==
    IF NotDatasets(ds) \/ Len(ds.items) = 0
    THEN [exc |-> "RuntimeError", datasets |-> ds, assigned |-> <<>>, added |-> <<>>]
    ELSE IF arg.type \notin ValidModelTypes
    THEN [exc |-> "TypeError", datasets |-> ds, assigned |-> <<>>, added |-> <<>>]
    ELSE LET models == IF extend THEN arg.models \o ds.models ELSE arg.models
             bkg_models == BkgModels(ds.items, models, Len(ds.items))
         IN [exc |-> "",
             datasets |-> [ds EXCEPT !.models = models \o bkg_models],
             assigned |-> models,
             added |-> bkg_models]

\* The record of a call on the session: the method called, the exception it
\* ended with and the function that raised it, the calls it made in order,
\* and what went through set_models and Datasets.read.
SessionCall(op, exc, raisedBy, calls) ==
    [op |-> op, exc |-> exc, raisedBy |-> raisedBy, calls |-> calls,
     argType |-> "", given |-> <<>>, extend |-> FALSE,
     assigned |-> <<>>, added |-> <<>>, readItems |-> <<>>]

\* No call on the session is under way: the record of the last call is
\* cleared when the call is over.
NoSessionCall == SessionCall("", "", "", <<>>)

\* The call self.set_models(arg, extend) made by method op after the calls
\* `calls`, on datasets ds.
SetModelsCall(op, calls, ds, readItems, arg, extend) ==
    LET r == SetModelsResult(ds, arg, extend)
    IN /\ Len(r.datasets.models) <= MaxModels
       /\ datasets' = r.datasets
       /\ aLast' = [op |-> op, exc |-> r.exc,
                    raisedBy |-> IF r.exc = "" THEN "" ELSE "set_models",
                    calls |-> Append(calls, "set_models"),
                    argType |-> arg.type, given |-> arg.models, extend |-> extend,
                    assigned |-> r.assigned, added |-> r.added,
                    readItems |-> readItems]

\* value = analysis.models
ModelsGet ==
    /\ aLast = NoSessionCall
    /\ aLast' = IF NotDatasets(datasets)
                THEN SessionCall("models", "RuntimeError", "models", <<>>)
                ELSE SessionCall("models", "", "", <<>>)
    /\ UNCHANGED <<datasets, datasets_file, models_file, notSession>>

\* analysis.models = arg
ModelsSet(arg) ==
    /\ aLast = NoSessionCall
    /\ SetModelsCall("models.setter", <<>>, datasets, <<>>, arg, FALSE)
    /\ UNCHANGED <<datasets_file, models_file, notSession>>

\* analysis.set_models(arg, extend)
SetModels(arg, extend) ==
    /\ aLast = NoSessionCall
    /\ SetModelsCall("set_models", <<>>, datasets, <<>>, arg, extend)
    /\ UNCHANGED <<datasets_file, models_file, notSession>>

\* analysis.read_models(path, extend): Models.read raises (readable false)
\* or returns the models of the file, which go to set_models.
ReadModels(readable, content, extend) ==
    /\ aLast = NoSessionCall
    /\ IF readable
       THEN SetModelsCall("read_models", <<"Models.read">>, datasets, <<>>,
                          [type |-> "Models", models |-> content], extend)
       ELSE /\ aLast' = SessionCall("read_models", "OSError", "Models.read",
                                    <<"Models.read">>)
            /\ UNCHANGED datasets
    /\ UNCHANGED <<datasets_file, models_file, notSession>>

\* analysis.write_models(): RuntimeError without a models_file; otherwise
\* self.models is read (RuntimeError without datasets) and written, and the
\* write raises (writable false) or succeeds.
WriteModels(writable) ==
    /\ aLast = NoSessionCall
    /\ aLast' =
         IF models_file = "None"
         THEN SessionCall("write_models", "RuntimeError", "write_models", <<>>)
         ELSE IF NotDatasets(datasets)
         THEN SessionCall("write_models", "RuntimeError", "models", <<"models">>)
         ELSE IF ~writable
         THEN SessionCall("write_models", "OSError", "Models.write",
                          <<"models", "Models.write">>)
         ELSE SessionCall("write_models", "", "", <<"models", "Models.write">>)
    /\ UNCHANGED <<datasets, datasets_file, models_file, notSession>>

\* The datasets a file holds, as Datasets.read returns them: no models are
\* set on them.
ReadDatasetsValue(items) == [isNone |-> FALSE, items |-> items, models |-> <<>>]

\* read_datasets once a datasets_file is configured: Datasets.read raises
\* (readable false) or returns the datasets of the file, which replace
\* self.datasets; then, with a models_file, read_models(models_file,
\* extend=False), in which Models.read raises (modelsReadable false) or
\* returns the models that go to set_models.
ReadDatasetsFiles(readable, items, modelsReadable, content) ==
    IF ~readable
    THEN /\ aLast' = SessionCall("read_datasets", "OSError", "Datasets.read",
                                 <<"Datasets.read">>)
         /\ UNCHANGED datasets
    ELSE IF models_file = "None"
    THEN /\ aLast' = [SessionCall("read_datasets", "", "", <<"Datasets.read">>)
                         EXCEPT !.readItems = items]
         /\ datasets' = ReadDatasetsValue(items)
    ELSE IF ~modelsReadable
    THEN /\ aLast' = [SessionCall("read_datasets", "OSError", "Models.read",
                                  <<"Datasets.read", "read_models", "Models.read">>)
                         EXCEPT !.readItems = items]
         /\ datasets' = ReadDatasetsValue(items)
    ELSE SetModelsCall("read_datasets",
                       <<"Datasets.read", "read_models", "Models.read">>,
                       ReadDatasetsValue(items), items,
                       [type |-> "Models", models |-> content], FALSE)

\* A read_datasets that reads the datasets file before it looks at the
\* configuration.
ReadDatasetsReadFirst(readable, items, modelsReadable, content) ==
    /\ aLast = NoSessionCall
    /\ IF datasets_file = "None" /\ readable
       THEN /\ aLast' = [SessionCall("read_datasets", "RuntimeError", "read_datasets",
                                     <<"Datasets.read">>)
                            EXCEPT !.readItems = items]
            /\ datasets' = ReadDatasetsValue(items)
       ELSE ReadDatasetsFiles(readable, items, modelsReadable, content)
    /\ UNCHANGED <<datasets_file, models_file, notSession>>

\* analysis.read_datasets(): RuntimeError without a datasets_file; otherwise
\* the files are read.
ReadDatasets(readable, items, modelsReadable, content) ==
    /\ aLast = NoSessionCall
    /\ IF datasets_file = "None"
       THEN /\ aLast' = SessionCall("read_datasets", "RuntimeError", "read_datasets", <<>>)
            /\ UNCHANGED datasets
       ELSE ReadDatasetsFiles(readable, items, modelsReadable, content)
    /\ UNCHANGED <<datasets_file, models_file, notSession>>

\* analysis.write_datasets(): RuntimeError without a datasets_file; otherwise
\* self.datasets.write, which is an AttributeError when self.datasets is
\* None, and raises (writable false) or succeeds.
WriteDatasets(writable) ==
    /\ aLast = NoSessionCall
    /\ aLast' =
         IF datasets_file = "None"
         THEN SessionCall("write_datasets", "RuntimeError", "write_datasets", <<>>)
         ELSE IF datasets.isNone
         THEN SessionCall("write_datasets", "AttributeError", "write_datasets", <<>>)
         ELSE IF ~writable
         THEN SessionCall("write_datasets", "OSError", "Datasets.write",
                          <<"Datasets.write">>)
         ELSE SessionCall("write_datasets", "", "", <<"Datasets.write">>)
    /\ UNCHANGED <<datasets, datasets_file, models_file, notSession>>

\* The values of a file name of the configuration.
FileNames == {"None", "set"}

\* analysis.update_config(config) with the two file names of general.
UpdateConfigFiles(dfile, mfile) ==
    /\ aLast = NoSessionCall
    /\ datasets_file' = dfile
    /\ models_file' = mfile
    /\ aLast' = SessionCall("update_config", "", "", <<>>)
    /\ UNCHANGED <<datasets, notSession>>

\* The call on the session is over: control is back with the caller, and
\* the record of the call is cleared.
SessionReturn ==
    /\ aLast # NoSessionCall
    /\ aLast' = NoSessionCall
    /\ UNCHANGED <<datasets, datasets_file, models_file, notSession>>

\* What a file holds: one of `contents` when it can be read, nothing when
\* reading it raises.
FileContent(readable, contents) == IF readable THEN contents ELSE {<<>>}

\* The session after Analysis(config) with the default configuration: no
\* datasets, and no file names.
SessionInit ==
    /\ datasets = NoneDatasets
    /\ datasets_file = "None"
    /\ models_file = "None"
    /\ aLast = NoSessionCall

SessionNext ==
    \/ ModelsGet
    \/ \E arg \in ModelArgs : ModelsSet(arg)
    \/ \E arg \in ModelArgs, extend \in BOOLEAN : SetModels(arg, extend)
    \/ \E readable \in BOOLEAN, extend \in BOOLEAN :
         \E content \in FileContent(readable, ModelLists) :
           ReadModels(readable, content, extend)
    \/ \E writable \in BOOLEAN : WriteModels(writable)
    \/ \E readable \in BOOLEAN, modelsReadable \in BOOLEAN :
         \E items \in FileContent(readable, DatasetLists),
            content \in FileContent(readable /\ modelsReadable, ModelLists) :
           ReadDatasets(readable, items, modelsReadable, content)
    \/ \E writable \in BOOLEAN : WriteDatasets(writable)
    \/ \E dfile \in FileNames, mfile \in FileNames : UpdateConfigFiles(dfile, mfile)
    \/ SessionReturn

(***************************************************************************)
(* gammapy/analysis/core.py: Analysis.run and the methods that call it     *)
(*                                                                         *)
(* AnalysisStep is defined outside the files modelled here: creating and   *)
(* running a step either returns or raises.                                *)
(***************************************************************************)
\* The step names run is called with.
StepNames == {"datasets", "fit"}

\* The lists of steps.
StepLists == UNION {[1..n -> StepNames] : n \in 0..MaxSteps}

\* steps=None, or steps=list
NoSteps == [isNone |-> TRUE, list |-> <<>>]

StepsArgs == {NoSteps} \cup {[isNone |-> FALSE, list |-> l] : l \in StepLists}

\* overwrite=None, overwrite=<a single value>, or overwrite=<a list>
NoOverwrite == [kind |-> "None", value |-> FALSE, list |-> <<>>]

OverwriteValues ==
    {[kind |-> "value", value |-> b, list |-> <<>>] : b \in BOOLEAN}
        \cup {[kind |-> "list", value |-> FALSE, list |-> l] :
                l \in UNION {[1..n -> BOOLEAN] : n \in 0..MaxSteps}}

OverwriteArgs == {NoOverwrite} \cup OverwriteValues

\* [True] * n
RECURSIVE AllTrue(_)
AllTrue(n) == IF n = 0 THEN <<>> ELSE Append(AllTrue(n - 1), TRUE)

\* The methods kept for backward compatibility, and the step each runs.
LegacyMethods ==
    {"get_observations", "get_datasets", "run_fit", "get_flux_points",
     "get_excess_map", "get_light_curve"}

\* The step of each method.
LegacyStep(method) ==
    CASE method = "get_observations" -> "observations"
      [] method = "get_datasets" -> "datasets"
      [] method = "run_fit" -> "fit"
      [] method = "get_flux_points" -> "flux-points"
      [] method = "get_excess_map" -> "excess-map"
      [] method = "get_light_curve" -> "light-curve"

\* The head of run: the local variable steps.
RunSteps(stepsArg) == IF stepsArg.isNone THEN steps_config ELSE stepsArg.list

\* The head of run: the local variable overwrite.
RunOverwrite(stepsArg, overwriteArg) ==
    IF stepsArg.isNone
    THEN overwrite_config
    ELSE IF overwriteArg.kind = "None"
    THEN [kind |-> "list", value |-> FALSE, list |-> AllTrue(Len(stepsArg.list))]
    ELSE overwriteArg

\* The call method(...), which enters run(stepsArg, overwriteArg).
RunEnter(method, stepsArg, overwriteArg) ==
    /\ pc = "idle"
    /\ pc' = "run"
    /\ rArgs' = [method |-> method, steps |-> stepsArg, overwrite |-> overwriteArg]
    /\ steps' = RunSteps(stepsArg)
    /\ overwrite' = RunOverwrite(stepsArg, overwriteArg)
    /\ k' = 0
    /\ rLog' = <<>>
    /\ rExc' = ""
    /\ UNCHANGED <<steps_config, overwrite_config, notRun>>

\* analysis.run(steps=stepsArg, overwrite=overwriteArg)
Run(stepsArg, overwriteArg) == RunEnter("run", stepsArg, overwriteArg)

\* analysis.get_observations(), get_datasets(), run_fit(), get_flux_points(),
\* get_excess_map(), get_light_curve(): self.run(steps=[<the step>])
Legacy(method) ==
    RunEnter(method, [isNone |-> FALSE, list |-> <<LegacyStep(method)>>], NoOverwrite)

\* An overwrite_step that reads the list one place too early.
OverwriteStepShifted(ov, i) ==
    IF ov.kind = "list"
    THEN IF i = 0 THEN ov.list[1] ELSE ov.list[i]
    ELSE ov.value

\* overwrite_step of the loop's pass with index i (from 0): overwrite[i] of
\* a list, the value itself otherwise.
OverwriteStep(ov, i) == IF ov.kind = "list" THEN ov.list[i + 1] ELSE ov.value

\* One pass of the loop of run: overwrite[k] of a list that is too short is
\* an IndexError; otherwise the step is created and run, which raises
\* (stepRaises) or returns.
RunStep(stepRaises) ==
    /\ pc = "run"
    /\ k < Len(steps)
    /\ IF overwrite.kind = "list" /\ k >= Len(overwrite.list)
       THEN /\ pc' = "raised"
            /\ rExc' = "IndexError"
            /\ UNCHANGED <<k, rLog>>
       ELSE IF stepRaises
       THEN /\ pc' = "raised"
            /\ rExc' = "StepError"
            /\ rLog' = Append(rLog, [step |-> steps[k + 1],
                                     overwrite |-> OverwriteStep(overwrite, k),
                                     raised |-> TRUE])
            /\ UNCHANGED k
       ELSE /\ rLog' = Append(rLog, [step |-> steps[k + 1],
                                     overwrite |-> OverwriteStep(overwrite, k),
                                     raised |-> FALSE])
            /\ k' = k + 1
            /\ UNCHANGED <<pc, rExc>>
    /\ UNCHANGED <<steps_config, overwrite_config, rArgs, steps, overwrite, notRun>>

\* The loop of run is over: run returns.
RunReturn ==
    /\ pc = "run"
    /\ k = Len(steps)
    /\ pc' = "returned"
    /\ UNCHANGED <<steps_config, overwrite_config, rArgs, steps, overwrite, k, rLog,
                   rExc, notRun>>

\* No call of run is under way: its arguments and local variables.
NoRunArgs == [method |-> "", steps |-> NoSteps, overwrite |-> NoOverwrite]

\* The call is over, by a return or by an exception: control is back with
\* the caller, and the arguments and local variables of run are gone.
RunExit ==
    /\ pc \in {"returned", "raised"}
    /\ pc' = "idle"
    /\ rArgs' = NoRunArgs
    /\ steps' = <<>>
    /\ overwrite' = NoOverwrite
    /\ k' = 0
    /\ rLog' = <<>>
    /\ rExc' = ""
    /\ UNCHANGED <<steps_config, overwrite_config, notRun>>

\* analysis.update_config(config) with the steps and the overwrite of
\* general, between two calls of run.
UpdateConfigSteps(stepsValue, overwriteValue) ==
    /\ pc = "idle"
    /\ steps_config' = stepsValue
    /\ overwrite_config' = overwriteValue
    /\ UNCHANGED <<pc, rArgs, steps, overwrite, k, rLog, rExc, notRun>>

\* The session after Analysis(config) with the default configuration: no
\* steps, overwrite True, and run has not been called.
RunInit ==
    /\ steps_config = <<>>
    /\ overwrite_config = [kind |-> "value", value |-> TRUE, list |-> <<>>]
    /\ pc = "idle"
    /\ rArgs = NoRunArgs
    /\ steps = <<>>
    /\ overwrite = NoOverwrite
    /\ k = 0
    /\ rLog = <<>>
    /\ rExc = ""

RunNext ==
    \/ \E stepsArg \in StepsArgs, overwriteArg \in OverwriteArgs :
           Run(stepsArg, overwriteArg)
    \/ \E method \in LegacyMethods : Legacy(method)
    \/ \E stepRaises \in BOOLEAN : RunStep(stepRaises)
    \/ RunReturn
    \/ RunExit
    \/ \E stepsValue \in StepLists, overwriteValue \in OverwriteValues :
           UpdateConfigSteps(stepsValue, overwriteValue)

(***************************************************************************)
(* gammapy/estimators/points/sensitivity.py: SensitivityEstimator          *)
(*                                                                         *)
(* Counts are whole numbers of hundredths of an event, background counts   *)
(* whole events, and bkg_syst_fraction a whole number of percent, so that  *)
(* bkg_syst_fraction * background is a whole number of hundredths.         *)
(* WStatCountsStatistic and apply_threshold_sensitivity are defined        *)
(* outside the files modelled here.  The excess at which the W-statistic   *)
(* significance of a bin is n_sigma is a given of the bin (n_sig); the     *)
(* thresholds are those of the class documentation: the excess is to be    *)
(* at least gamma_min and at least bkg_syst_fraction of the background.    *)
(***************************************************************************)
\* gamma_min=10 of SensitivityEstimator.__init__
DefaultGammaMin == 10

\* bkg_syst_fraction=0.05 of SensitivityEstimator.__init__, in percent
DefaultBkgSystPercent == 5

\* The values of gamma_min and of bkg_syst_fraction (percent) an estimator
\* is made with.
GammaMins == {0, DefaultGammaMin}

BkgSystPercents == {0, DefaultBkgSystPercent}

\* The energy bins of a dataset: n_sig is the excess (hundredths) of
\* WStatCountsStatistic(...).n_sig_matching_significance(n_sigma) for the
\* bin, background its background counts.
Bins == [n_sig : {0, 700, 2500}, background : {0, 100, 400}]

\* The spectrum datasets: one bin or more.
SpectrumDatasets == UNION {[1..n -> Bins] : n \in 1..MaxBins}

\* apply_threshold_sensitivity(background, excess_counts, gamma_min,
\* bkg_syst_fraction) for one bin: the excess raised to gamma_min, then to
\* bkg_syst_fraction * background.
ApplyThresholdSensitivity(background, excess_counts, gamma_min, bkg_syst_percent) ==
    LET gamma_limited == IF excess_counts < 100 * gamma_min
                         THEN 100 * gamma_min
                         ELSE excess_counts
    IN IF gamma_limited < bkg_syst_percent * background
       THEN bkg_syst_percent * background
       ELSE gamma_limited

\* An estimate_min_excess that returns the excess matching the significance
\* as it is.
EstimateMinExcessNoThreshold(est, dataset) ==
    [i \in 1..Len(dataset) |-> dataset[i].n_sig]

\* SensitivityEstimator.estimate_min_excess(dataset): per bin, the excess
\* matching the significance, put through apply_threshold_sensitivity.
EstimateMinExcess(est, dataset) ==
    [i \in 1..Len(dataset) |->
        ApplyThresholdSensitivity(dataset[i].background, dataset[i].n_sig,
                                  est.gamma_min, est.bkg_syst_percent)]

\* SensitivityEstimator._get_criterion(excess, bkg): "gamma" where the excess
\* equals gamma_min, overwritten by "bkg" where it equals
\* bkg * bkg_syst_fraction, "significance" where it equals neither.
GetCriterion(est, excess, dataset) ==
    [i \in 1..Len(excess) |->
        IF excess[i] = est.bkg_syst_percent * dataset[i].background
        THEN "bkg"
        ELSE IF excess[i] = 100 * est.gamma_min
        THEN "gamma"
        ELSE "significance"]

\* estimator = SensitivityEstimator(gamma_min=..., bkg_syst_fraction=...)
NewEstimator(gamma_min, bkg_syst_percent) ==
    /\ estimator' = [gamma_min |-> gamma_min, bkg_syst_percent |-> bkg_syst_percent]
    /\ sLast' = [op |-> "init", dataset |-> <<>>, excess |-> <<>>,
                 background |-> <<>>, criterion |-> <<>>]
    /\ UNCHANGED notSens

\* excess = estimator.estimate_min_excess(dataset)
EstimateMinExcessCall(dataset) ==
    /\ sLast' = [op |-> "estimate_min_excess", dataset |-> dataset,
                 excess |-> EstimateMinExcess(estimator, dataset),
                 background |-> <<>>, criterion |-> <<>>]
    /\ UNCHANGED <<estimator, notSens>>

\* table = estimator.run(dataset): the columns excess, background and
\* criterion of the table (the energy and flux columns are left out).
SensitivityRun(dataset) ==
    LET excess == EstimateMinExcess(estimator, dataset)
    IN /\ sLast' = [op |-> "run", dataset |-> dataset,
                    excess |-> excess,
                    background |-> [i \in 1..Len(dataset) |-> dataset[i].background],
                    criterion |-> GetCriterion(estimator, excess, dataset)]
       /\ UNCHANGED <<estimator, notSens>>

\* The estimator after SensitivityEstimator().
SensitivityInit ==
    /\ estimator = [gamma_min |-> DefaultGammaMin,
                    bkg_syst_percent |-> DefaultBkgSystPercent]
    /\ sLast = [op |-> "init", dataset |-> <<>>, excess |-> <<>>,
                background |-> <<>>, criterion |-> <<>>]

SensitivityNext ==
    \/ \E gamma_min \in GammaMins, bkg_syst_percent \in BkgSystPercents :
           NewEstimator(gamma_min, bkg_syst_percent)
    \/ \E dataset \in SpectrumDatasets : EstimateMinExcessCall(dataset)
    \/ \E dataset \in SpectrumDatasets : SensitivityRun(dataset)

Init == MapsInit /\ SessionInit /\ RunInit /\ SensitivityInit

Next == MapsNext \/ SessionNext \/ RunNext \/ SensitivityNext

Spec == Init /\ [][Next]_vars

SpecMaps == Init /\ [][MapsNext]_vars

SpecSession == Init /\ [][SessionNext]_vars

SpecRun == Init /\ [][RunNext]_vars

SpecSensitivity == Init /\ [][SensitivityNext]_vars

(***************************************************************************)
(* The properties checked.                                                 *)
(***************************************************************************)
\* x is an element of the sequence seq.
InSeq(x, seq) == \E i \in 1..Len(seq) : seq[i] = x

\* The sequence seq begins with the sequence prefix.
IsPrefix(prefix, seq) ==
    /\ Len(prefix) <= Len(seq)
    /\ \A i \in 1..Len(prefix) : seq[i] = prefix[i]

\* C1: in every state reached by constructions, __setitem__ and __delitem__
\* calls, failed ones included, every value stored in a non-empty Maps is a
\* Map whose geometry is Maps.geom.
C1_SharedGeometry ==
    Cardinality(DOMAIN mData) > 0 =>
        \A x \in DOMAIN mData : IsMap(mData[x]) /\ GeomOf(mData[x]) = mGeom

\* A container of two maps of geometry gB on which the last call failed.
C1_Witness ==
    /\ Cardinality(DOMAIN mData) = 2
    /\ mGeom = "gB"
    /\ mLast.op = "setitem"
    /\ mLast.exc = "ValueError"

\* C2: a __setitem__ with a value that is neither None nor a Map raises
\* ValueError and leaves the keys, the values and geom as they were.
C2_NotAMapRejected ==
    [][(mLast'.op = "setitem" /\ mLast'.value # "None" /\ ~IsMap(mLast'.value))
          => (mLast'.exc = "ValueError" /\ mData' = mData /\ mGeom' = mGeom)]_vars

\* A non-empty container after a __setitem__ with a value that is no Map.
C2_Witness ==
    /\ mLast.op = "setitem"
    /\ mLast.value = "notAMap"
    /\ mLast.exc = "ValueError"
    /\ Cardinality(DOMAIN mData) > 0

\* C3: a __setitem__ on a non-empty Maps with a Map of another geometry than
\* Maps.geom raises ValueError, whether the key is new or stored, and leaves
\* the keys, the values and geom as they were.
C3_OtherGeometryRejected ==
    [][(/\ mLast'.op = "setitem"
        /\ IsMap(mLast'.value)
        /\ Cardinality(DOMAIN mData) > 0
        /\ GeomOf(mLast'.value) # mGeom)
          => (mLast'.exc = "ValueError" /\ mData' = mData /\ mGeom' = mGeom)]_vars

\* A container of one map after a refused attempt to replace that map by a
\* map of another geometry.
C3_Witness ==
    /\ mLast.op = "setitem"
    /\ mLast.exc = "ValueError"
    /\ IsMap(mLast.value)
    /\ DOMAIN mData = {mLast.key}
    /\ GeomOf(mLast.value) # mGeom

\* C4: while the session has no datasets (None or an empty collection),
\* reading models, set_models, the models setter and the set_models call of
\* read_models raise RuntimeError, whatever the type of the models, and leave
\* the datasets as they were.
C4_NoDatasetsRuntimeError ==
    [][(/\ NotDatasets(datasets)
        /\ \/ aLast'.op \in {"models", "set_models", "models.setter"}
           \/ aLast'.op = "read_models" /\ InSeq("set_models", aLast'.calls))
          => (aLast'.exc = "RuntimeError" /\ datasets' = datasets)]_vars

\* set_models with models of an invalid type on an empty Datasets collection.
C4_Witness ==
    /\ ~datasets.isNone
    /\ Len(datasets.items) = 0
    /\ aLast.op = "set_models"
    /\ aLast.argType = "other"
    /\ aLast.exc = "RuntimeError"

\* C5 as stated: after a set_models call that returns, with extend=True the
\* models of the datasets begin with the given models followed by the models
\* that were on the datasets; with extend=False, and after the assignment to
\* models, they are the given models and nothing else.
C5_AsStated ==
    [][(aLast'.op \in {"set_models", "models.setter"} /\ aLast'.exc = "")
          => IF aLast'.extend
             THEN IsPrefix(aLast'.given \o datasets.models, datasets'.models)
             ELSE datasets'.models = aLast'.given]_vars

\* C5, amended: after a set_models call that returns, with extend=True the
\* models of the datasets begin with the given models followed by the models
\* that were on the datasets; with extend=False, and after the assignment to
\* models, they are the given models followed only by new
\* FoVBackgroundModels, each of a MapDataset of the session that has no
\* background model among the given models.
C5_GivenThenOld ==
    [][(aLast'.op \in {"set_models", "models.setter"} /\ aLast'.exc = "")
          => IF aLast'.extend
             THEN IsPrefix(aLast'.given \o datasets.models, datasets'.models)
             ELSE /\ IsPrefix(aLast'.given, datasets'.models)
                  /\ \A i \in (Len(aLast'.given) + 1)..Len(datasets'.models) :
                        \E j \in 1..Len(datasets.items) :
                            /\ datasets.items[j].tag = "MapDataset"
                            /\ ~HasBackgroundModel(datasets.items[j], aLast'.given)
                            /\ datasets'.models[i] =
                                   FoVBackgroundModel(datasets.items[j].name)]_vars

\* An assignment of one model to models that left that model and one new
\* background model on the datasets.
C5_Witness ==
    /\ aLast.op = "models.setter"
    /\ aLast.exc = ""
    /\ Len(aLast.given) = 1
    /\ Len(datasets.models) = 2
    /\ datasets.models[2].auto

\* C6: after every set_models call that returns, every MapDataset has a
\* background model; the models added are one FoVBackgroundModel for each
\* MapDataset that has no background model among the models assigned, and
\* none for any other dataset; and a set_models(extend=True) on datasets
\* whose MapDatasets all have a background model adds none.
C6_BackgroundModels ==
    [][(aLast'.exc = "" /\ InSeq("set_models", aLast'.calls))
          => LET items == datasets'.items
                 added == aLast'.added
             IN /\ \A j \in 1..Len(items) :
                      items[j].tag = "MapDataset"
                          => HasBackgroundModel(items[j], datasets'.models)
                /\ datasets'.models = aLast'.assigned \o added
                /\ \A j \in 1..Len(items) :
                      InSeq(FoVBackgroundModel(items[j].name), added)
                          <=> (/\ items[j].tag = "MapDataset"
                               /\ ~HasBackgroundModel(items[j], aLast'.assigned))
                /\ \A i \in 1..Len(added) :
                      \E j \in 1..Len(items) :
                          added[i] = FoVBackgroundModel(items[j].name)
                /\ \A i, j \in 1..Len(added) : i # j => added[i] # added[j]
                /\ (/\ aLast'.op \in {"set_models", "read_models"}
                    /\ aLast'.extend
                    /\ \A j \in 1..Len(datasets.items) :
                          datasets.items[j].tag = "MapDataset"
                              => HasBackgroundModel(datasets.items[j], datasets.models))
                      => added = <<>>]_vars

\* A set_models(extend=True) that added nothing on two MapDatasets, one with
\* a background model that an earlier call added.
C6_Witness ==
    /\ aLast.op = "set_models"
    /\ aLast.exc = ""
    /\ aLast.extend
    /\ aLast.added = <<>>
    /\ Len(datasets.items) = 2
    /\ \A j \in 1..2 : datasets.items[j].tag = "MapDataset"
    /\ \E i \in 1..Len(datasets.models) : datasets.models[i].auto

\* The steps a call of run is to go through, from its arguments.
C7_Steps == IF rArgs.steps.isNone THEN steps_config ELSE rArgs.steps.list

\* The overwrite the i-th of these steps is to run with, from the arguments.
C7_Overwrite(i) ==
    IF rArgs.steps.isNone
    THEN IF overwrite_config.kind = "list"
         THEN overwrite_config.list[i]
         ELSE overwrite_config.value
    ELSE IF rArgs.overwrite.kind = "None"
    THEN TRUE
    ELSE IF rArgs.overwrite.kind = "list"
    THEN rArgs.overwrite.list[i]
    ELSE rArgs.overwrite.value

\* C7: the steps run so far are the first steps of the list, in its order,
\* one per entry: the list and the overwrite of the configuration with
\* steps=None; with steps given, overwrite True for overwrite=None,
\* overwrite[k] for a list and the value itself for a single value.  When
\* run returns every step of the list has run, and each legacy method has
\* run its one step with overwrite True.
C7_StepsInOrder ==
    /\ Len(rLog) <= Len(C7_Steps)
    /\ \A i \in 1..Len(rLog) :
          /\ rLog[i].step = C7_Steps[i]
          /\ rLog[i].overwrite = C7_Overwrite(i)
          /\ rLog[i].raised => (i = Len(rLog) /\ pc = "raised")
    /\ pc = "run" => k = Len(rLog)
    /\ pc = "returned" => Len(rLog) = Len(C7_Steps)
    /\ (pc = "returned" /\ rArgs.method \in LegacyMethods) =>
          rLog = << [step |->
                       CASE rArgs.method = "get_observations" -> "observations"
                         [] rArgs.method = "get_datasets" -> "datasets"
                         [] rArgs.method = "run_fit" -> "fit"
                         [] rArgs.method = "get_flux_points" -> "flux-points"
                         [] rArgs.method = "get_excess_map" -> "excess-map"
                         [] rArgs.method = "get_light_curve" -> "light-curve",
                     overwrite |-> TRUE, raised |-> FALSE] >>

\* A run of two different steps with a list of two different overwrite
\* flags has returned.
C7_Witness ==
    /\ pc = "returned"
    /\ rArgs.method = "run"
    /\ rArgs.overwrite.kind = "list"
    /\ Len(rLog) = 2
    /\ rLog[1].step # rLog[2].step
    /\ rLog[1].overwrite # rLog[2].overwrite

\* C8: without a datasets_file read_datasets and write_datasets raise
\* RuntimeError, and without a models_file write_models does; the datasets
\* and their models are then as they were and no file was read or written.
\* With a datasets_file, the datasets that read_datasets has read replace
\* those of the session, and with a models_file too it goes on to read_models
\* and hands set_models the models read with extend=False.
C8_FilesOfConfig ==
    [][/\ (datasets_file = "None" /\ aLast'.op \in {"read_datasets", "write_datasets"})
            => (/\ aLast'.exc = "RuntimeError"
                /\ datasets' = datasets
                /\ aLast'.calls = <<>>)
       /\ (models_file = "None" /\ aLast'.op = "write_models")
            => (/\ aLast'.exc = "RuntimeError"
                /\ datasets' = datasets
                /\ aLast'.calls = <<>>)
       /\ (/\ datasets_file # "None"
           /\ aLast'.op = "read_datasets"
           /\ aLast'.raisedBy # "Datasets.read")
            => (/\ ~datasets'.isNone
                /\ datasets'.items = aLast'.readItems
                /\ IF models_file = "None"
                   THEN aLast'.calls = <<"Datasets.read">> /\ datasets'.models = <<>>
                   ELSE /\ IsPrefix(<<"Datasets.read", "read_models", "Models.read">>,
                                    aLast'.calls)
                        /\ aLast'.raisedBy # "Models.read"
                              => (/\ InSeq("set_models", aLast'.calls)
                                  /\ ~aLast'.extend
                                  /\ (aLast'.exc = ""
                                        => IsPrefix(aLast'.given, datasets'.models))))]_vars

\* read_datasets raised RuntimeError on a session that holds datasets with
\* models.
C8_Witness ==
    /\ aLast.op = "read_datasets"
    /\ aLast.exc = "RuntimeError"
    /\ aLast.raisedBy = "read_datasets"
    /\ datasets_file = "None"
    /\ ~NotDatasets(datasets)
    /\ Len(datasets.models) > 0

====
